---- MODULE Spec2Model ----
(***************************************************************************)
(* A model of the Matrix type of src/src/math/matrix.rs, of the Tuple it   *)
(* multiplies (src/src/math/tuple.rs) and of the scalar utilities          *)
(* (src/src/math/util.rs).                                                 *)
(*                                                                         *)
(* An f64 is modelled by the exact rational it stands for: a pair <<n, d>> *)
(* in lowest terms with d > 0.  A zero denominator marks the non-finite    *)
(* values: <<1, 0>> is +inf, <<-1, 0>> is -inf and <<0, 0>> is NaN.        *)
(* Rounding error of the floating-point operations is not modelled.        *)
(*                                                                         *)
(* Every fallible value is a record with a "kind" field; a panic (a failed *)
(* assert!, an index out of range, an unwrap of an Err, an arithmetic      *)
(* overflow under overflow checks) is the record Panic.                    *)
(***************************************************************************)
EXTENDS Integers, Sequences, FiniteSets, TLC

(***************************************************************************)
(* f64 arithmetic over exact rationals                                     *)
(***************************************************************************)
Abs(x) == IF x < 0 THEN -x ELSE x

Min(x, y) == IF x < y THEN x ELSE y

RECURSIVE Gcd(_, _)
Gcd(a, b) == IF b = 0 THEN a ELSE Gcd(b, a % b)

\* The rational n/d (d # 0) in lowest terms with a positive denominator.
Norm(n, d) ==
    LET g == Gcd(Abs(n), Abs(d))
        s == IF d < 0 THEN -1 ELSE 1
    IN  <<(s * n) \div g, (s * d) \div g>>

F(n) == <<n, 1>>

IsFinite(x) == x[2] # 0

NaN == <<0, 0>>

\* a + b
FAdd(x, y) ==
    IF IsFinite(x) /\ IsFinite(y)
    THEN LET l == (x[2] \div Gcd(x[2], y[2])) * y[2]
         IN  Norm(x[1] * (l \div x[2]) + y[1] * (l \div y[2]), l)
    ELSE IF ~IsFinite(x) /\ ~IsFinite(y)
         THEN (IF x = y THEN x ELSE NaN)
         ELSE (IF IsFinite(x) THEN y ELSE x)

\* -a
FNeg(x) == <<-x[1], x[2]>>

\* a - b
FSub(x, y) == FAdd(x, FNeg(y))

Sign(n) == IF n > 0 THEN 1 ELSE IF n < 0 THEN -1 ELSE 0

\* a * b
FMul(x, y) ==
    IF IsFinite(x) /\ IsFinite(y)
    THEN LET g1 == Gcd(Abs(x[1]), y[2])
             g2 == Gcd(Abs(y[1]), x[2])
         IN  Norm((x[1] \div g1) * (y[1] \div g2), (x[2] \div g2) * (y[2] \div g1))
    ELSE IF x = NaN \/ y = NaN \/ x[1] = 0 \/ y[1] = 0
         THEN NaN
         ELSE <<Sign(x[1]) * Sign(y[1]), 0>>

\* a / b: x/0 is an infinity, 0/0 is NaN
FDiv(x, y) ==
    IF IsFinite(x) /\ IsFinite(y)
    THEN (IF y[1] = 0
          THEN <<Sign(x[1]), 0>>
          ELSE FMul(x, Norm(y[2], y[1])))
    ELSE IF IsFinite(y) /\ x # NaN
         THEN <<x[1] * (IF y[1] < 0 THEN -1 ELSE 1), 0>>
         ELSE IF IsFinite(x) /\ y # NaN THEN F(0) ELSE NaN

\* a == b on f64: NaN equals nothing
FEq(x, y) == x # NaN /\ y # NaN /\ x = y

\* iter.sum::<f64>() of a sequence of f64
RECURSIVE FSum(_)
FSum(s) == IF s = <<>> THEN F(0) ELSE FAdd(s[1], FSum(Tail(s)))

(***************************************************************************)
(* src/src/math/util.rs                                                    *)
(***************************************************************************)
\* f64::EPSILON is 2^-52 = 1 / (EpsInvHalf * EpsInvHalf)
EpsInvHalf == 67108864

\* epsilon_eq: (a - b).abs() < f64::EPSILON.  With |a - b| = n/d the test
\* n * 2^52 < d is (d - 1) \div n >= 2^52, taken in two steps of 2^26.
epsilon_eq(a, b) ==
    LET diff == FSub(a, b)
        n == Abs(diff[1])
        d == diff[2]
    IN  IF ~IsFinite(diff)
        THEN FALSE
        ELSE n = 0 \/ (((d - 1) \div n) \div EpsInvHalf >= EpsInvHalf)

(***************************************************************************)
(* Values                                                                  *)
(***************************************************************************)
Panic == [kind |-> "panic"]

None == [kind |-> "none"]

IsPanic(x) == x.kind = "panic"

IsMatrix(x) == x.kind = "matrix"

Float(x) == [kind |-> "f64", val |-> x]

Bool(x) == [kind |-> "bool", val |-> x]

VecOf(s) == [kind |-> "vec", items |-> s]

\* struct Matrix { width, height, rows }
Mat(w, h, rows) == [kind |-> "matrix", width |-> w, height |-> h, rows |-> rows]

\* struct Tuple { vector: [f64; 4] }
Tup(v) == [kind |-> "tuple", vector |-> v]

\* usize::MAX, the value 0usize - 1 wraps to without overflow checks; it
\* stands for 2^64 - 1, which is -1 modulo 2^64.
USIZE_MAX == -1

\* a - 1 on usize: a panic under overflow checks (chk), else wrapping
usize_dec(a, chk) ==
    IF a = 0
    THEN (IF chk THEN Panic ELSE [kind |-> "usize", val |-> USIZE_MAX])
    ELSE [kind |-> "usize", val |-> a - 1]

\* The sequence s without its element at 0-based index i (Vec::remove)
RemoveAt(s, i) == [k \in 1..(Len(s) - 1) |-> IF k <= i THEN s[k] ELSE s[k + 1]]

\* rows.iter().flatten()
RECURSIVE Flatten(_)
Flatten(rows) == IF rows = <<>> THEN <<>> ELSE rows[1] \o Flatten(Tail(rows))

(***************************************************************************)
(* src/src/math/matrix.rs: impl Matrix                                     *)
(***************************************************************************)
\* Matrix::new
Matrix_new(rows) ==
    LET height == Len(rows)
        width == IF height > 0 THEN Len(rows[1]) ELSE 0
    IN  IF \A i \in 1..height : Len(rows[i]) = width
        THEN Mat(width, height, rows)
        ELSE Panic

IdentityDim == 4

\* Mutant of identity: the last diagonal element is left at 0
identity_short ==
    Mat(IdentityDim, IdentityDim,
        [i \in 1..IdentityDim |-> [j \in 1..IdentityDim |->
            IF i = j /\ i < IdentityDim THEN F(1) ELSE F(0)]])

\* Matrix::identity
identity ==
    Mat(IdentityDim, IdentityDim,
        [i \in 1..IdentityDim |-> [j \in 1..IdentityDim |-> IF i = j THEN F(1) ELSE F(0)]])

\* Matrix::with_dimension
with_dimension(w, h) == Mat(w, h, [i \in 1..h |-> [j \in 1..w |-> F(0)]])

\* Matrix::col: r[c] of every row, a panic when a row is too short
col(m, c) ==
    IF \E i \in 1..Len(m.rows) : Len(m.rows[i]) <= c
    THEN Panic
    ELSE VecOf([i \in 1..Len(m.rows) |-> m.rows[i][c + 1]])

\* Matrix::transpose: the columns become the rows; width and height are
\* copied as they are
transpose(m) ==
    LET cols == [i \in 1..m.width |-> col(m, i - 1)]
    IN  IF \E i \in 1..m.width : IsPanic(cols[i])
        THEN Panic
        ELSE Mat(m.width, m.height, [i \in 1..m.width |-> cols[i].items])

\* Matrix::submatrix
submatrix(m, r, c, chk) ==
    IF r >= Len(m.rows)
    THEN Panic
    ELSE LET rows1 == RemoveAt(m.rows, r)
         IN  IF \E i \in 1..Len(rows1) : c >= Len(rows1[i])
             THEN Panic
             ELSE LET w == usize_dec(m.width, chk)
                      h == usize_dec(m.height, chk)
                  IN  IF IsPanic(w) \/ IsPanic(h)
                      THEN Panic
                      ELSE Mat(w.val, h.val,
                               [i \in 1..Len(rows1) |-> RemoveAt(rows1[i], c)])

RECURSIVE determinant(_, _)
RECURSIVE minor(_, _, _, _)
RECURSIVE cofactor(_, _, _, _)

\* Matrix::minor
minor(m, r, c, chk) ==
    LET sub == submatrix(m, r, c, chk)
    IN  IF IsPanic(sub) THEN Panic ELSE determinant(sub, chk)

\* Mutant of cofactor: the sign is never flipped
cofactor_unsigned(m, r, c, chk) == minor(m, r, c, chk)

\* Matrix::cofactor
cofactor(m, r, c, chk) ==
    LET op == IF (r + c) % 2 = 1 THEN F(-1) ELSE F(1)
        mi == minor(m, r, c, chk)
    IN  IF IsPanic(mi) THEN Panic ELSE Float(FMul(mi.val, op))

\* Mutant of determinant: the 2x2 base case adds the two products
determinant_plus(m, chk) ==
    IF m.width # m.height
    THEN Panic
    ELSE IF m.width = 2
         THEN Float(FAdd(FMul(m.rows[1][1], m.rows[2][2]),
                         FMul(m.rows[1][2], m.rows[2][1])))
         ELSE IF Len(m.rows) = 0
              THEN Panic
              ELSE LET cof == [i \in 1..Len(m.rows[1]) |-> cofactor(m, 0, i - 1, chk)]
                   IN  IF \E i \in 1..Len(m.rows[1]) : IsPanic(cof[i])
                       THEN Panic
                       ELSE Float(FSum([i \in 1..Len(m.rows[1]) |->
                                           FMul(m.rows[1][i], cof[i].val)]))

\* Matrix::determinant
determinant(m, chk) ==
    IF m.width # m.height
    THEN Panic
    ELSE IF m.width = 2
         THEN IF Len(m.rows) < 2 \/ \E i \in 1..2 : Len(m.rows[i]) < 2
              THEN Panic
              ELSE Float(FSub(FMul(m.rows[1][1], m.rows[2][2]),
                              FMul(m.rows[1][2], m.rows[2][1])))
         ELSE IF Len(m.rows) = 0
              THEN Panic
              ELSE LET cof == [i \in 1..Len(m.rows[1]) |-> cofactor(m, 0, i - 1, chk)]
                   IN  IF \E i \in 1..Len(m.rows[1]) : IsPanic(cof[i])
                       THEN Panic
                       ELSE Float(FSum([i \in 1..Len(m.rows[1]) |->
                                           FMul(m.rows[1][i], cof[i].val)]))

\* Mutant of invertible: the determinant is tested for being positive
invertible_positive(m, chk) ==
    LET det == determinant(m, chk)
    IN  IF IsPanic(det) THEN Panic ELSE Bool(det.val[1] > 0)

\* Matrix::invertible
invertible(m, chk) ==
    LET det == determinant(m, chk)
    IN  IF IsPanic(det) THEN Panic ELSE Bool(~FEq(det.val, F(0)))

\* Mutant of inverse: the cofactor matrix is scaled without being transposed
inverse_no_transpose(m, chk) ==
    LET inv == invertible(m, chk)
    IN  IF IsPanic(inv) \/ ~inv.val
        THEN Panic
        ELSE LET h == Len(m.rows)
                 cof == [i \in 1..h |-> [j \in 1..Len(m.rows[i]) |->
                                            cofactor(m, i - 1, j - 1, chk)]]
                 det == determinant(m, chk)
             IN  IF \E i \in 1..h : \E j \in 1..Len(m.rows[i]) : IsPanic(cof[i][j])
                 THEN Panic
                 ELSE Mat(m.width, m.height,
                          [i \in 1..h |-> [j \in 1..Len(m.rows[i]) |->
                              FDiv(cof[i][j].val, det.val)]])

\* Matrix::inverse
inverse(m, chk) ==
    LET inv == invertible(m, chk)
    IN  IF IsPanic(inv) \/ ~inv.val
        THEN Panic
        ELSE LET h == Len(m.rows)
                 cof == [i \in 1..h |-> [j \in 1..Len(m.rows[i]) |->
                                            cofactor(m, i - 1, j - 1, chk)]]
                 n == Mat(m.width, m.height,
                          [i \in 1..h |-> [j \in 1..Len(m.rows[i]) |-> cof[i][j].val]])
                 det == determinant(m, chk)
                 t == transpose(n)
             IN  IF \/ h > m.height
                    \/ \E i \in 1..h : Len(m.rows[i]) > m.width
                    \/ \E i \in 1..h : \E j \in 1..Len(m.rows[i]) : IsPanic(cof[i][j])
                 THEN Panic
                 ELSE IF IsPanic(t)
                      THEN Panic
                      ELSE Mat(t.width, t.height,
                               [i \in 1..Len(t.rows) |-> [j \in 1..Len(t.rows[i]) |->
                                   FDiv(t.rows[i][j], det.val)]])

\* impl PartialEq for Matrix: the two grids are flattened and zipped, and
\* every pair must be epsilon_eq; width and height are not compared
Matrix_eq(a, o) ==
    LET fa == Flatten(a.rows)
        fo == Flatten(o.rows)
    IN  \A k \in 1..Min(Len(fa), Len(fo)) : epsilon_eq(fa[k], fo[k])

\* Mutant of matrix_mul: row i of self is multiplied with row j of o
matrix_mul_rows(self, o) ==
    IF Len(self.rows) < self.height \/ Len(o.rows) < self.width
    THEN Panic
    ELSE Mat(self.width, self.height,
             [i \in 1..self.height |-> [j \in 1..self.width |->
                 FSum([k \in 1..Min(Len(o.rows[j]), Len(self.rows[i])) |->
                          FMul(o.rows[j][k], self.rows[i][k])])]])

\* matrix_mul!: impl Mul<Matrix> for Matrix
matrix_mul(self, o) ==
    LET cols == [j \in 1..self.width |-> col(o, j - 1)]
    IN  IF self.height > 0 /\
           (\/ Len(self.rows) < self.height
            \/ \E j \in 1..self.width : IsPanic(cols[j]))
        THEN Panic
        ELSE Mat(self.width, self.height,
                 [i \in 1..self.height |-> [j \in 1..self.width |->
                     LET m_row == self.rows[i]
                         m_col == cols[j].items
                     IN  FSum([k \in 1..Min(Len(m_col), Len(m_row)) |->
                                  FMul(m_col[k], m_row[k])])]])

TupleLen == 4

\* impl From<Vec<f64>> for Tuple: vector.try_into().unwrap()
Tuple_from(vector) == IF Len(vector) = TupleLen THEN Tup(vector) ELSE Panic

\* Mutant of matrix_tuple_add: the fourth component of v is left out
matrix_tuple_add_xyz(self, v) ==
    IF Len(self.rows) # self.height
    THEN Panic
    ELSE Tuple_from([i \in 1..self.height |->
             FSum([k \in 1..Min(Len(self.rows[i]), TupleLen - 1) |->
                      FMul(self.rows[i][k], v.vector[k])])])

\* matrix_tuple_add!: impl Mul<Tuple> for Matrix
matrix_tuple_add(self, v) ==
    IF Len(self.rows) > self.height
    THEN Panic
    ELSE Tuple_from([i \in 1..self.height |->
             IF i <= Len(self.rows)
             THEN LET row == self.rows[i]
                  IN  FSum([k \in 1..Min(Len(row), TupleLen) |->
                               FMul(row[k], v.vector[k])])
             ELSE F(0)])

(***************************************************************************)
(* src/src/math/tuple.rs: impl Tuple                                       *)
(***************************************************************************)
VECTOR == F(0)

POINT == F(1)

\* Tuple::vector
Tuple_vector(x, y, z) == Tup(<<x, y, z, VECTOR>>)

\* Tuple::point
Tuple_point(x, y, z) == Tup(<<x, y, z, POINT>>)

\* Tuple::color
Tuple_color(r, g, bl) == Tup(<<r, g, bl, F(0)>>)

red(t) == t.vector[1]

green(t) == t.vector[2]

blue(t) == t.vector[3]

\* self.vector[3] == 0.0
is_vector(t) == FEq(t.vector[4], F(0))

\* self.vector[3] == 1.0
is_point(t) == FEq(t.vector[4], F(1))

\* impl Add for Tuple: the sums of the zipped components, try_into().unwrap()
Tuple_add(self, rhs) ==
    Tuple_from([k \in 1..Min(Len(self.vector), Len(rhs.vector)) |->
                   FAdd(self.vector[k], rhs.vector[k])])

\* Mutant of Tuple_sub: the fourth component is taken from self
Tuple_sub_xyz(self, rhs) ==
    Tuple_from([k \in 1..Min(Len(self.vector), Len(rhs.vector)) |->
                   IF k = TupleLen
                   THEN self.vector[k]
                   ELSE FSub(self.vector[k], rhs.vector[k])])

\* impl Sub for Tuple: the differences of the zipped components
Tuple_sub(self, rhs) ==
    Tuple_from([k \in 1..Min(Len(self.vector), Len(rhs.vector)) |->
                   FSub(self.vector[k], rhs.vector[k])])

(***************************************************************************)
(* src/src/math/util.rs: round                                             *)
(***************************************************************************)
\* i32 arithmetic: x * 10 wraps modulo 2^32.  The product is taken on the
\* two 16-bit halves of x so that no intermediate leaves 32 bits.
Half == 65536

I32MaxDiv10 == 214748364

wrapping_mul10(x) ==
    LET lo == x % Half
        hi == (x - lo) \div Half
        l10 == lo * 10
        h10 == hi * 10 + (l10 \div Half)
        hw == ((h10 + (Half \div 2)) % Half) - (Half \div 2)
    IN  hw * Half + (l10 % Half)

\* decimals further factors of 10 on val, the wrapped product so far; ovf
\* tells whether a product has overflowed
RECURSIVE pow10_from(_, _, _)
pow10_from(decimals, val, ovf) ==
    IF decimals = 0
    THEN [val |-> val, ovf |-> ovf]
    ELSE IF val > I32MaxDiv10 \/ val < -I32MaxDiv10
         THEN pow10_from(decimals - 1, wrapping_mul10(val), TRUE)
         ELSE pow10_from(decimals - 1, val * 10, ovf)

\* 10i32.pow(decimals): the wrapped value and whether a product overflowed
pow10(decimals) == pow10_from(decimals, 1, FALSE)

\* f64::round: to the nearest integer, halves away from zero
FRound(x) ==
    IF ~IsFinite(x)
    THEN x
    ELSE LET a == Abs(x[1])
             q == a \div x[2]
             r == a % x[2]
         IN  F(Sign(x[1]) * (IF r >= x[2] - r THEN q + 1 ELSE q))

\* round(v, decimals)
round(v, decimals, chk) ==
    LET p == pow10(decimals)
    IN  IF p.ovf /\ chk
        THEN Panic
        ELSE Float(FDiv(FRound(FMul(v, F(p.val))), F(p.val)))

\* Matrix::round
Matrix_round(m, decimal_count, chk) ==
    IF \E i \in 1..Len(m.rows) : \E j \in 1..Len(m.rows[i]) :
           IsPanic(round(m.rows[i][j], decimal_count, chk))
    THEN Panic
    ELSE Mat(m.width, m.height,
             [i \in 1..Len(m.rows) |-> [j \in 1..Len(m.rows[i]) |->
                 round(m.rows[i][j], decimal_count, chk).val]])

(***************************************************************************)
(* src/src/graphics/canvas.rs                                              *)
(***************************************************************************)
\* x < y on f64: false when either side is NaN
FLt(x, y) ==
    IF x = NaN \/ y = NaN
    THEN FALSE
    ELSE IF IsFinite(x) /\ IsFinite(y)
         THEN x[1] * y[2] < y[1] * x[2]
         ELSE x # y /\ (x = <<-1, 0>> \/ y = <<1, 0>>)

\* f64::clamp: NaN stays NaN
clamp(x, min, max) ==
    IF FLt(x, min) THEN min ELSE IF FLt(max, x) THEN max ELSE x

U8_MAX == 255

\* x as u8: truncation toward zero, saturating, NaN to 0
as_u8(x) ==
    IF x = NaN \/ FLt(x, F(0))
    THEN 0
    ELSE IF FLt(F(U8_MAX), x)
         THEN U8_MAX
         ELSE x[1] \div x[2]

\* The maximum colour value of the PPM header and of the scaling
MaxColor == 255

\* Mutant of channel: the scaled value is cast without being rounded
channel_trunc(c) ==
    as_u8(clamp(FMul(F(MaxColor), clamp(c, F(0), F(1))), F(0), F(MaxColor)))

\* (255.0 * c.clamp(0.0, 1.0)).clamp(0.0, 255.0).round() as u8
channel(c) ==
    as_u8(FRound(clamp(FMul(F(MaxColor), clamp(c, F(0), F(1))), F(0), F(MaxColor))))

\* struct Canvas { width, height, matrix }
Canvas(w, h, matrix) == [kind |-> "canvas", width |-> w, height |-> h, matrix |-> matrix]

\* Canvas::new: every pixel is color(0, 0, 0)
Canvas_new(width, height) ==
    Canvas(width, height,
           [y \in 1..height |-> [x \in 1..width |-> Tuple_color(F(0), F(0), F(0))]])

\* Canvas::set_pixel: self.matrix[y][x] = *c; the canvas after the call
set_pixel(self, x, y, c) ==
    IF y >= Len(self.matrix)
    THEN Panic
    ELSE IF x >= Len(self.matrix[y + 1])
         THEN Panic
         ELSE [self EXCEPT !.matrix[y + 1][x + 1] = c]

\* Canvas::get_pixel: self.matrix[y][x]
get_pixel(self, x, y) ==
    IF y >= Len(self.matrix)
    THEN Panic
    ELSE IF x >= Len(self.matrix[y + 1])
         THEN Panic
         ELSE self.matrix[y + 1][x + 1]

\* impl Display for Canvas: the header and, for every row of the matrix, the
\* line of the channel values of its pixels
Canvas_fmt(self) ==
    [kind |-> "ppm", magic |-> "P3", width |-> self.width, height |-> self.height,
     maxval |-> MaxColor,
     lines |-> [y \in 1..Len(self.matrix) |->
                   Flatten([x \in 1..Len(self.matrix[y]) |->
                       LET p == self.matrix[y][x]
                       IN  <<channel(red(p)), channel(green(p)), channel(blue(p))>>])]]

(***************************************************************************)
(* Inputs                                                                  *)
(***************************************************************************)
\* Rows of the matrices of the tests of matrix.rs (inverse, not_invertible,
\* vector_multiplication)
PoolRows ==
    << <<-5, 2, 6, -8>>, <<1, -5, 1, 8>>, <<7, 7, -6, -7>>, <<1, -3, 7, 4>>,
       <<0, 0, 0, 1>>, <<0, -5, 1, -5>>, <<-4, 2, -2, -3>>, <<9, 6, 2, 6>> >>

\* How many rows of PoolRows the inputs are drawn from
NumRows == 5

\* The largest decimal count given to round
MaxDecimals == 2

\* Row k of the pool cut to w elements, as f64
Row(k, w) == [j \in 1..w |-> F(PoolRows[k][j])]

Dims == 0..IdentityDim

\* Square row data: n rows of the pool, in the order of the pool, cut to n
SquareRowData ==
    UNION {{[i \in 1..n |-> Row(idx[i], n)] :
                idx \in {f \in [1..n -> 1..NumRows] :
                            \A i \in 1..(n - 1) : f[i] <= f[i + 1]}} :
           n \in 1..IdentityDim}

\* Rectangular row data: the first h rows of the pool cut to w
RectRowData == {[i \in 1..h |-> Row(i, w)] : w \in Dims, h \in Dims}

\* Ragged row data: rectangular row data with the last row one element short
RaggedRowData ==
    {[i \in 1..h |-> Row(i, IF i = h THEN w - 1 ELSE w)] :
        w \in 1..IdentityDim, h \in 2..IdentityDim}

RowData == SquareRowData \cup RectRowData \cup RaggedRowData

\* Right operands of a product with lhs: matrices of the shape of lhs whose
\* rows are a window of the pool starting at row k
Operands(lhs) ==
    {Mat(lhs.width, lhs.height,
         [i \in 1..lhs.height |-> Row(((k + i - 2) % NumRows) + 1, lhs.width)]) :
        k \in 1..NumRows}

\* Tuples: the rows of the pool and the tuples of the tests
TupleInputs ==
    {Tup(Row(k, TupleLen)) : k \in 1..NumRows}
        \cup {Tup(<<F(2), F(0), F(-1), F(1)>>), Tup(<<F(1), F(2), F(3), F(1)>>)}

\* Coordinates: the rows of the pool and the coordinates of the tests of
\* tuple.rs (sub_point_from_point, sub_vector_from_zero_vector)
Coords ==
    {Row(k, TupleLen - 1) : k \in 1..NumRows}
        \cup {<<F(3), F(2), F(1)>>, <<F(5), F(6), F(7)>>, <<F(0), F(0), F(0)>>}

\* Points, vectors and the tuples built from four components
TupleOperands ==
    {Tuple_point(c[1], c[2], c[3]) : c \in Coords}
        \cup {Tuple_vector(c[1], c[2], c[3]) : c \in Coords}
        \cup TupleInputs

\* The largest width and height of a canvas
MaxCanvas == 2

\* Channel values: below, at and above the range, halves of the scaled
\* value, the infinities and NaN
ChannelValues ==
    << <<-1, 2>>, F(0), <<1, 510>>, <<1, 3>>, <<2, 5>>, <<1, 2>>, <<253, 255>>,
       F(1), <<3, 2>>, <<17, 10>>, <<1, 0>>, <<-1, 0>>, NaN >>

\* Colours: the colours of the tests of canvas.rs and tuple.rs, and three
\* consecutive channel values
Colors ==
    {Tuple_color(<<3, 2>>, F(0), F(0)), Tuple_color(F(0), <<1, 2>>, F(0)),
     Tuple_color(<<-1, 2>>, F(0), F(1)), Tuple_color(<<-1, 2>>, <<2, 5>>, <<17, 10>>),
     Tuple_color(F(1), F(0), F(0))}
        \cup {Tuple_color(ChannelValues[i],
                          ChannelValues[(i % Len(ChannelValues)) + 1],
                          ChannelValues[((i + 1) % Len(ChannelValues)) + 1]) :
                 i \in 1..Len(ChannelValues)}

\* Values given to round: fractions with and without a finite decimal
\* expansion, a tie and a value above 1
RoundValues == {<<1, 3>>, <<1, 5>>, <<-1, 8>>, <<-5, 2>>, <<2469, 200>>, F(7)}

\* Decimal counts at and beyond the last power of ten an i32 holds
BigDecimals == {9, 10, 11, 32}

\* The calls of round: every value with a small decimal count, the values
\* of numerator 1 or -1 with a large one
RoundCalls ==
    {<<v, d>> : v \in RoundValues, d \in 0..MaxDecimals}
        \cup {<<v, d>> : v \in {x \in RoundValues : Abs(x[1]) = 1}, d \in BigDecimals}

\* Row and column arguments
Indices == 0..(IdentityDim - 1)

\* Builds with and without overflow checks
OverflowChecks == BOOLEAN

(***************************************************************************)
(* State                                                                   *)
(***************************************************************************)
VARIABLES
    m,      \* the matrix the program holds (None before construction)
    b,      \* a matrix bound from the result of a call on m (or None)
    bOp,    \* the call on m that returned b ("none" when b is None)
    op,     \* the call that returned last ("none" between calls)
    args,   \* the arguments of that call
    ret     \* what that call returned: a value, or Panic

vars == <<m, b, bOp, op, args, ret>>

NoArgs == [kind |-> "noargs"]

Init ==
    /\ m = None
    /\ b = None
    /\ bOp = "none"
    /\ op = "none"
    /\ args = NoArgs
    /\ ret = None

\* A call returns
Return(name, a, value) ==
    /\ op' = name
    /\ args' = a
    /\ ret' = value
    /\ UNCHANGED <<m, b, bOp>>

Constructing == op = "none" /\ m = None

Ready == op = "none" /\ m # None

\* The receiver of a method call: the most recently bound matrix
Recv == IF b = None THEN m ELSE b

\* let m = Matrix::new(rows)
New ==
    /\ Constructing
    /\ \E rows \in RowData : Return("new", [rows |-> rows], Matrix_new(rows))

Identity ==
    /\ Constructing
    /\ Return("identity", NoArgs, identity)

WithDimension ==
    /\ Constructing
    /\ \E w \in Dims, h \in Dims : Return("with_dimension", [w |-> w, h |-> h], with_dimension(w, h))

\* The constructed matrix is bound to m
LetM ==
    /\ op \in {"new", "identity", "with_dimension"}
    /\ IsMatrix(ret)
    /\ m' = ret
    /\ op' = "none"
    /\ args' = NoArgs
    /\ ret' = None
    /\ UNCHANGED <<b, bOp>>

Col ==
    /\ Ready
    /\ \E c \in Indices : Return("col", [self |-> Recv, c |-> c], col(Recv, c))

Transpose ==
    /\ Ready
    /\ Return("transpose", [self |-> Recv], transpose(Recv))

Determinant ==
    /\ Ready
    /\ \E chk \in OverflowChecks :
          Return("determinant", [self |-> Recv], determinant(Recv, chk))

Submatrix ==
    /\ Ready
    /\ \E r \in Indices, c \in Indices, chk \in OverflowChecks :
          Return("submatrix", [self |-> Recv, r |-> r, c |-> c], submatrix(Recv, r, c, chk))

Minor ==
    /\ Ready
    /\ \E r \in Indices, c \in Indices, chk \in OverflowChecks :
          Return("minor", [self |-> Recv, r |-> r, c |-> c], minor(Recv, r, c, chk))

Cofactor ==
    /\ Ready
    /\ \E r \in Indices, c \in Indices, chk \in OverflowChecks :
          Return("cofactor", [self |-> Recv, r |-> r, c |-> c], cofactor(Recv, r, c, chk))

Invertible ==
    /\ Ready
    /\ \E chk \in OverflowChecks :
          Return("invertible", [self |-> Recv], invertible(Recv, chk))

Inverse ==
    /\ Ready
    /\ \E chk \in OverflowChecks :
          Return("inverse", [self |-> Recv], inverse(Recv, chk))

Round ==
    /\ Ready
    /\ \E d \in 0..MaxDecimals, chk \in OverflowChecks :
          Return("round", [self |-> Recv, decimal_count |-> d], Matrix_round(Recv, d, chk))

\* lhs * rhs, over the matrices the program holds, identity() and the operands
Mul ==
    /\ Ready
    /\ \E lhs \in {m, b} \ {None} :
          \E rhs \in ({m, b} \ {None}) \cup {identity} \cup Operands(lhs) :
              Return("mul", [self |-> lhs, o |-> rhs], matrix_mul(lhs, rhs))

\* self * v
MulTuple ==
    /\ Ready
    /\ \E v \in TupleInputs :
          Return("mul_tuple", [self |-> Recv, v |-> v], matrix_tuple_add(Recv, v))

\* The right-hand sides of a comparison with lhs: the matrices the program
\* holds, identity(), the elements of lhs as one row, and the empty matrix
EqOperands(lhs) ==
    {x \in ({m, b} \ {None})
             \cup {identity, Matrix_new(<<Flatten(lhs.rows)>>), Matrix_new(<<>>)} :
        IsMatrix(x)}

\* self == o
Eq ==
    /\ Ready
    /\ \E o \in EqOperands(Recv) :
          Return("eq", [self |-> Recv, o |-> o], Bool(Matrix_eq(Recv, o)))

\* let b = m.transpose() or let b = m.inverse()
LetB ==
    /\ op \in {"transpose", "inverse"}
    /\ b = None
    /\ IsMatrix(ret)
    /\ b' = ret
    /\ bOp' = op
    /\ op' = "none"
    /\ args' = NoArgs
    /\ ret' = None
    /\ UNCHANGED m

\* The returned value is dropped; a panic ends the program
Drop ==
    /\ op \notin {"none", "new", "identity", "with_dimension"}
    /\ ~IsPanic(ret)
    /\ op' = "none"
    /\ args' = NoArgs
    /\ ret' = None
    /\ UNCHANGED <<m, b, bOp>>

Next ==
    \/ New
    \/ Identity
    \/ WithDimension
    \/ LetM
    \/ Col
    \/ Transpose
    \/ Determinant
    \/ Submatrix
    \/ Minor
    \/ Cofactor
    \/ Invertible
    \/ Inverse
    \/ Round
    \/ Mul
    \/ MulTuple
    \/ Eq
    \/ LetB
    \/ Drop

Spec == Init /\ [][Next]_vars

(***************************************************************************)
(* Tuples, the canvas and the scalar utilities, called on their own        *)
(***************************************************************************)
\* self + rhs
TupleAdd ==
    /\ Constructing
    /\ \E self \in TupleOperands, rhs \in TupleOperands :
          Return("add", [self |-> self, rhs |-> rhs], Tuple_add(self, rhs))

\* self - rhs
TupleSub ==
    /\ Constructing
    /\ \E self \in TupleOperands, rhs \in TupleOperands :
          Return("sub", [self |-> self, rhs |-> rhs], Tuple_sub(self, rhs))

\* let c = Canvas::new(width, height)
CanvasNew ==
    /\ Constructing
    /\ \E w \in 0..MaxCanvas, h \in 0..MaxCanvas :
          Return("canvas_new", [width |-> w, height |-> h], Canvas_new(w, h))

\* c.set_pixel(x, y, &color) on the new canvas
SetPixel ==
    /\ op = "canvas_new"
    /\ \E x \in 0..MaxCanvas, y \in 0..MaxCanvas, c \in Colors :
          Return("set_pixel", [self |-> ret, x |-> x, y |-> y, c |-> c],
                 set_pixel(ret, x, y, c))

\* c.get_pixel(x, y) on the written canvas
GetPixel ==
    /\ op = "set_pixel"
    /\ ~IsPanic(ret)
    /\ \E x \in 0..MaxCanvas, y \in 0..MaxCanvas :
          Return("get_pixel", [self |-> ret, x |-> x, y |-> y], get_pixel(ret, x, y))

\* format!("{}", c) on the new or the written canvas
Fmt ==
    /\ op \in {"canvas_new", "set_pixel"}
    /\ ~IsPanic(ret)
    /\ Return("fmt", [self |-> ret], Canvas_fmt(ret))

\* round(v, decimals)
UtilRound ==
    /\ Constructing
    /\ \E call \in RoundCalls, chk \in OverflowChecks :
          Return("util_round", [v |-> call[1], decimals |-> call[2]],
                 round(call[1], call[2], chk))

TupleNext ==
    \/ TupleAdd
    \/ TupleSub
    \/ CanvasNew
    \/ SetPixel
    \/ GetPixel
    \/ Fmt
    \/ UtilRound
    \/ Drop

TupleSpec == Init /\ [][TupleNext]_vars

(***************************************************************************)
(* Reference definitions the properties compare the code against           *)
(***************************************************************************)
\* Every row of m has width elements and there are height rows
WellShaped(x) ==
    /\ Len(x.rows) = x.height
    /\ \A i \in 1..Len(x.rows) : Len(x.rows[i]) = x.width

\* x is a well-shaped n by n matrix
IsSquare(x, n) == IsMatrix(x) /\ WellShaped(x) /\ x.width = n /\ x.height = n

\* Every element of x is an integer
IsIntegral(x) == \A i \in 1..Len(x.rows) : \A j \in 1..Len(x.rows[i]) : x.rows[i][j][2] = 1

\* x is a well-shaped n by n matrix of integers
IsIntSquare(x, n) == IsSquare(x, n) /\ IsIntegral(x)

Perms(n) == {f \in [1..n -> 1..n] : \A i, j \in 1..n : f[i] = f[j] => i = j}

\* The sign of a permutation, from its number of inversions
PermSign(f, n) ==
    IF Cardinality({p \in (1..n) \X (1..n) : p[1] < p[2] /\ f[p[1]] > f[p[2]]}) % 2 = 0
    THEN F(1)
    ELSE F(-1)

RECURSIVE FProd(_)
FProd(s) == IF s = <<>> THEN F(1) ELSE FMul(s[1], FProd(Tail(s)))

\* The sum over the permutations f in P of sign(f) * rows[1][f[1]] * ... * rows[n][f[n]]
RECURSIVE LeibnizSum(_, _)
LeibnizSum(rows, P) ==
    IF P = {}
    THEN F(0)
    ELSE LET f == CHOOSE g \in P : TRUE
             n == Len(rows)
         IN  FAdd(FMul(PermSign(f, n), FProd([i \in 1..n |-> rows[i][f[i]]])),
                  LeibnizSum(rows, P \ {f}))

\* The Leibniz determinant of an n by n grid of rows
LeibnizDet(rows) == LeibnizSum(rows, Perms(Len(rows)))

\* The grid of rows without row r and column c (0-based)
Without(rows, r, c) ==
    [i \in 1..(Len(rows) - 1) |->
        [j \in 1..(Len(rows[1]) - 1) |->
            rows[IF i <= r THEN i ELSE i + 1][IF j <= c THEN j ELSE j + 1]]]

\* Entry (i, j), 1-based, of the row-by-column product of two n by n grids
ProductEntry(x, y, i, j) == FSum([k \in 1..Len(x) |-> FMul(x[i][k], y[k][j])])

(***************************************************************************)
(* Properties                                                              *)
(***************************************************************************)
\* The program computed m * b where b is what m.inverse() returned
MulByInverse ==
    /\ op = "mul"
    /\ bOp = "inverse"
    /\ args.self = m
    /\ args.o = b

\* C1: for every invertible 4x4 matrix M, M * M.inverse() equals
\* Matrix::identity() under matrix equality; in exact arithmetic the product
\* is the identity matrix itself.
C1_InverseRoundTrip ==
    (MulByInverse /\ IsSquare(m, IdentityDim)) =>
        /\ IsMatrix(ret)
        /\ Matrix_eq(ret, identity)
        /\ ret = identity

\* A dense invertible 4x4 matrix was multiplied by its inverse
C1_Witness ==
    /\ MulByInverse
    /\ IsSquare(m, IdentityDim)
    /\ IsMatrix(ret)
    /\ \A i, j \in 1..IdentityDim : m.rows[i][j] # F(0)

\* C2: invertible() is false exactly when determinant() is exactly 0, and
\* inverse() of a matrix whose determinant is 0 panics and returns no
\* matrix; a returned inverse holds no quotient by zero.
C2_InvertibilityBoundary ==
    \A chk \in OverflowChecks :
        /\ op = "invertible" =>
              ((ret = Bool(FALSE)) <=> (determinant(args.self, chk) = Float(F(0))))
        /\ (op = "invertible" /\ \E n \in 2..IdentityDim : IsIntSquare(args.self, n)) =>
              ret = Bool(LeibnizDet(args.self.rows) # F(0))
        /\ (op = "inverse" /\ determinant(args.self, chk) = Float(F(0))) =>
              IsPanic(ret)
        /\ (op = "inverse" /\ IsMatrix(ret)) =>
              /\ IsIntegral(args.self) => LeibnizDet(args.self.rows) # F(0)
              /\ \A i \in 1..Len(ret.rows) : \A j \in 1..Len(ret.rows[i]) :
                    IsFinite(ret.rows[i][j])

\* inverse() was called on a 4x4 matrix without zero row whose determinant is 0
C2_Witness ==
    /\ op = "inverse"
    /\ IsIntSquare(args.self, IdentityDim)
    /\ \A i \in 1..IdentityDim : \E j \in 1..IdentityDim : args.self.rows[i][j] # F(0)
    /\ LeibnizDet(args.self.rows) = F(0)
    /\ IsPanic(ret)

\* C3: for every invertible 3x3 or 4x4 matrix M the returned inverse B has
\* B[j][i] = M.cofactor(i, j) / M.determinant(): the transpose of the
\* cofactor matrix, divided by the determinant.
C3_AdjugateFormula ==
    \A chk \in OverflowChecks :
        (op = "inverse" /\ \E n \in 3..IdentityDim : IsSquare(args.self, n)
                        /\ determinant(args.self, chk) # Float(F(0))) =>
            /\ IsSquare(ret, args.self.width)
            /\ \A i, j \in 1..args.self.width :
                  ret.rows[j][i] =
                      FDiv(cofactor(args.self, i - 1, j - 1, chk).val,
                           determinant(args.self, chk).val)

\* The inverse of a 4x4 matrix was returned and is not symmetric
C3_Witness ==
    /\ op = "inverse"
    /\ IsSquare(args.self, IdentityDim)
    /\ IsMatrix(ret)
    /\ ret.rows[1][2] # ret.rows[2][1]

\* C4: for every square matrix of integers of size 2x2, 3x3 or 4x4, determinant() is
\* the Leibniz determinant, and at 3x3 and 4x4 cofactor(r, c) is the Leibniz
\* determinant of the matrix without row r and column c, negated exactly
\* when r + c is odd.
C4_DeterminantReference ==
    /\ (op = "determinant" /\ \E n \in 2..IdentityDim : IsIntSquare(args.self, n)) =>
          ret = Float(LeibnizDet(args.self.rows))
    /\ (op = "cofactor" /\ \E n \in 3..IdentityDim : IsIntSquare(args.self, n)
                        /\ args.r < args.self.height /\ args.c < args.self.width) =>
          ret = Float(FMul(LeibnizDet(Without(args.self.rows, args.r, args.c)),
                           IF (args.r + args.c) % 2 = 1 THEN F(-1) ELSE F(1)))

\* determinant() of a 4x4 matrix returned a value other than 0
C4_Witness ==
    /\ op = "determinant"
    /\ IsSquare(args.self, IdentityDim)
    /\ ret.kind = "f64"
    /\ ret.val # F(0)

\* C5: determinant() panics when width # height and returns a value for
\* every square NxN matrix with N >= 1.
C5_DeterminantDomain ==
    op = "determinant" =>
        /\ args.self.width # args.self.height => IsPanic(ret)
        /\ (args.self.width = args.self.height /\ args.self.width >= 1) =>
              ret.kind = "f64"

\* The matrix Matrix::new accepts for the same rows
AcceptedByNew(x) == IsMatrix(x) /\ Matrix_new(x.rows) = x

\* C6: for any matrix M accepted by Matrix::new, M.transpose().transpose()
\* returns and is M; identity().transpose() is identity().
C6_TransposeInvolution ==
    /\ (op = "transpose" /\ bOp = "transpose" /\ args.self = b /\ AcceptedByNew(m)) =>
          ret = m
    /\ (op = "transpose" /\ args.self = identity) => ret = identity

\* C7: every Matrix value the operations return has exactly height rows of
\* exactly width elements.
C7_ShapeInvariant ==
    \A x \in {m, b, ret} : IsMatrix(x) => WellShaped(x)

\* C8: for any 4x4 matrix M, M * Matrix::identity() equals M.
C8_IdentityLaw ==
    (op = "mul" /\ args.o = identity /\ IsSquare(args.self, IdentityDim)) =>
        /\ IsMatrix(ret)
        /\ Matrix_eq(ret, args.self)
        /\ ret = args.self

\* A 4x4 matrix other than identity() was multiplied by identity()
C8_Witness ==
    /\ op = "mul"
    /\ args.o = identity
    /\ IsSquare(args.self, IdentityDim)
    /\ args.self # identity
    /\ \A i, j \in 1..IdentityDim : args.self.rows[i][j] # F(0)
    /\ IsMatrix(ret)

\* C9: for two NxN matrices A and B (N in 2..4), A * B has the dimensions
\* of A and entry (i, j) is the sum over k of A[i][k] * B[k][j]; the
\* operands the program holds are as they were.
C9_MatrixProduct ==
    (op = "mul" /\ \E n \in 2..IdentityDim : IsSquare(args.self, n) /\ IsSquare(args.o, n)) =>
        /\ IsSquare(ret, args.self.width)
        /\ \A i, j \in 1..args.self.width :
              ret.rows[i][j] = ProductEntry(args.self.rows, args.o.rows, i, j)
        /\ args.self \in {m, b}

\* Two 4x4 matrices that do not commute were multiplied
C9_Witness ==
    /\ op = "mul"
    /\ IsSquare(args.self, IdentityDim)
    /\ IsSquare(args.o, IdentityDim)
    /\ IsMatrix(ret)
    /\ ret # matrix_mul(args.o, args.self)

\* C10: for any 4x4 matrix M and tuple v, component i of M * v is the sum
\* over k in 0..3 of M[i][k] * v[k].
C10_MatrixTupleProduct ==
    (op = "mul_tuple" /\ IsSquare(args.self, IdentityDim)) =>
        /\ ret.kind = "tuple"
        /\ Len(ret.vector) = TupleLen
        /\ \A i \in 1..TupleLen :
              ret.vector[i] =
                  FSum([k \in 1..TupleLen |->
                           FMul(args.self.rows[i][k], args.v.vector[k])])

\* A 4x4 matrix that is not symmetric was multiplied with a tuple
C10_Witness ==
    /\ op = "mul_tuple"
    /\ IsSquare(args.self, IdentityDim)
    /\ args.self.rows[1][2] # args.self.rows[2][1]
    /\ ret.kind = "tuple"
    /\ ret.vector[1] # F(0)

\* C11: point - point is a vector, point - vector is a point, vector - vector
\* and vector + vector are vectors, and the first three components of the
\* result are the component-wise differences (sums) of those of the operands
C11_TagAlgebra ==
    op \in {"add", "sub"} =>
        LET a == args.self
            o == args.rhs
        IN  /\ ret.kind = "tuple"
            /\ Len(ret.vector) = TupleLen
            /\ \A k \in 1..(TupleLen - 1) :
                  ret.vector[k] = IF op = "sub"
                                  THEN FSub(a.vector[k], o.vector[k])
                                  ELSE FAdd(a.vector[k], o.vector[k])
            /\ (op = "sub" /\ is_point(a) /\ is_point(o)) => is_vector(ret)
            /\ (op = "sub" /\ is_point(a) /\ is_vector(o)) => is_point(ret)
            /\ (is_vector(a) /\ is_vector(o)) => is_vector(ret)

\* point(3, 2, 1) - point(5, 6, 7) has returned vector(-2, -4, -6)
C11_Witness ==
    /\ op = "sub"
    /\ args.self = Tuple_point(F(3), F(2), F(1))
    /\ args.rhs = Tuple_point(F(5), F(6), F(7))
    /\ ret = Tuple_vector(F(-2), F(-4), F(-6))
    /\ is_vector(ret)

\* The channel value of the claim: 255 at and above 1, 0 at and below 0 and
\* round(255 * c), halves away from zero, in between
RefChannel(c) ==
    IF c = <<1, 0>> \/ (IsFinite(c) /\ c[1] >= c[2])
    THEN 255
    ELSE IF c = <<-1, 0>> \/ (IsFinite(c) /\ c[1] <= 0)
         THEN 0
         ELSE (2 * 255 * c[1] + c[2]) \div (2 * c[2])

\* C12: every written channel value is an integer in 0..255 and, for a
\* channel that is a number, it is round(255 * clamp(c, 0, 1)): 255 for a
\* channel >= 1 and 0 for a channel <= 0, each channel on its own; the
\* stored Tuple keeps its raw values
C12_ChannelClamp ==
    /\ op = "fmt" =>
          /\ ret.kind = "ppm"
          /\ Len(ret.lines) = Len(args.self.matrix)
          /\ \A y \in 1..Len(args.self.matrix) :
                /\ Len(ret.lines[y]) = 3 * Len(args.self.matrix[y])
                /\ \A x \in 1..Len(args.self.matrix[y]) : \A k \in 1..3 :
                      LET c == args.self.matrix[y][x].vector[k]
                          written == ret.lines[y][3 * (x - 1) + k]
                      IN  /\ written \in 0..255
                          /\ c # NaN => written = RefChannel(c)
    /\ (op = "set_pixel" /\ ~IsPanic(ret)) =>
          /\ ret.matrix[args.y + 1][args.x + 1] = args.c
          /\ get_pixel(ret, args.x, args.y) = args.c
    /\ (op = "get_pixel" /\ ~IsPanic(ret)) =>
          ret = args.self.matrix[args.y + 1][args.x + 1]

\* A canvas holding the raw colour (1.5, 0, 0) has been written as 255 0 0
C12_Witness ==
    /\ op = "fmt"
    /\ args.self.width = 2
    /\ args.self.height >= 1
    /\ args.self.matrix[1][2] = Tuple_color(<<3, 2>>, F(0), F(0))
    /\ ret.lines[1] = <<0, 0, 0, 255, 0, 0>>

\* 10^n, exactly
RECURSIVE Pow10Exact(_)
Pow10Exact(n) == IF n = 0 THEN 1 ELSE 10 * Pow10Exact(n - 1)

\* n has no prime factor other than 2 and 5
RECURSIVE OnlyTwoFive(_)
OnlyTwoFive(n) ==
    IF n % 2 = 0 THEN OnlyTwoFive(n \div 2)
    ELSE IF n % 5 = 0 THEN OnlyTwoFive(n \div 5)
    ELSE n = 1

\* C13: for every decimal count the scale factor is 10^decimals, without
\* overflow or wrap-around, and round returns
\* round-half-away-from-zero(v * 10^decimals) / 10^decimals.  Up to nine
\* decimals the quotient is computed; beyond, the result is a decimal
\* fraction, and it is v when v has no more than nine decimals.
C13_RoundScale ==
    op = "util_round" =>
        /\ ret.kind = "f64"
        /\ IsFinite(ret.val)
        /\ IF args.decimals <= 9
           THEN LET y == F(Pow10Exact(args.decimals))
                    scaled == FMul(args.v, y)
                    a == Abs(scaled[1])
                    q == a \div scaled[2]
                    nearest == IF 2 * (a % scaled[2]) >= scaled[2] THEN q + 1 ELSE q
                IN  ret.val = FDiv(F(Sign(scaled[1]) * nearest), y)
           ELSE /\ OnlyTwoFive(ret.val[2])
                /\ Pow10Exact(9) % args.v[2] = 0 => ret.val = args.v

\* C14: on every 2x2 matrix [[a, b], [c, d]] minor(r, c) and cofactor(r, c)
\* return a value, minor(r, c) being the element left without row r and
\* column c, and when a*d - b*c # 0 inverse() returns
\* [[d, -b], [-c, a]] / (a*d - b*c)
C14_TwoByTwo ==
    (op \in {"minor", "cofactor", "inverse"} /\ IsSquare(args.self, 2)) =>
        /\ (op \in {"minor", "cofactor"} /\ args.r < 2 /\ args.c < 2) =>
              /\ ret.kind = "f64"
              /\ op = "minor" => ret.val = args.self.rows[2 - args.r][2 - args.c]
        /\ op = "inverse" =>
              LET rows == args.self.rows
                  det == FSub(FMul(rows[1][1], rows[2][2]), FMul(rows[1][2], rows[2][1]))
              IN  det # F(0) =>
                      ret = Mat(2, 2,
                                << <<FDiv(rows[2][2], det), FDiv(FNeg(rows[1][2]), det)>>,
                                   <<FDiv(FNeg(rows[2][1]), det), FDiv(rows[1][1], det)>> >>)

\* C15: two matrices compare equal only if they have the same width, the
\* same height and every pair of corresponding elements is equal; matrices
\* of different dimensions never compare equal
C15_EqualityShape ==
    (op = "eq" /\ ret.val) =>
        LET a == args.self
            o == args.o
        IN  /\ a.width = o.width
            /\ a.height = o.height
            /\ Len(a.rows) = Len(o.rows)
            /\ \A i \in 1..Len(a.rows) :
                  /\ Len(a.rows[i]) = Len(o.rows[i])
                  /\ \A j \in 1..Len(a.rows[i]) : epsilon_eq(a.rows[i][j], o.rows[i][j])

====
